---- MODULE Spec2Model ----
(***************************************************************************)
(* Voice-interaction client: the useAudioRecorder hook, the useSession     *)
(* hook, sendAudioToAPI and the VoiceInterface component that drives them. *)
(* One action per handler or callback; an async function is split at its   *)
(* awaits, and everything that runs in the same task (the microtasks that  *)
(* follow a settled promise included) is one step.                         *)
(***************************************************************************)
EXTENDS Integers, Sequences, FiniteSets, TLC

\* ---------------------------------------------------------------- bounds
\* startRecording calls that reach getUserMedia in one component lifetime
MaxStarts == 2
\* dataavailable events with a non-empty chunk, over all recorders
MaxChunks == 2
\* frequencyBinCount of the analysers: the bins one sample reads
NumBins == 2
\* distinct values generateSessionId can return
MaxSessions == 2

CallIds == 1..MaxStarts
\* a bin of getByteFrequencyData is a byte; the bins sampled are silent or full
ByteMax == 255
BinValues == {0, ByteMax}
BinArrays == [1..NumBins -> BinValues]
\* levels are fixed-point numbers: One stands for 1.0
One == NumBins * ByteMax
SessionIds == 1..MaxSessions
\* '' (useState initial value) and null (localStorage.getItem miss)
NoSession == 0
\* null refs
Null == 0

VARIABLES
  \* ---- useAudioRecorder (src/src/hooks/useAudioRecorder.ts)
  isRecording,        \* useState(false)
  audioLevel,         \* useState(0)
  mediaRecorderRef,   \* Null or the id of the MediaRecorder
  audioChunksRef,     \* sequence of chunks; a chunk is a sequence of bytes
  audioContextRef,    \* Null or the id of the capture AudioContext
  analyserRef,        \* Null or the id of the capture analyser
  animationFrameRef,  \* Null or the capture loop whose frame was requested last
  \* ---- the browser objects startRecording creates, by call id
  capture,            \* call id -> "unused" | "acquiring" | "recording" |
                      \*            "stopping" | "inactive" | "failed"
  onstop,             \* call id -> "none" | "turn" | "api": who awaits the
                      \*            promise recorder.onstop resolves
  startAwaited,       \* call ids whose startRecording promise handleToggleRecording awaits
  streamLive,         \* call ids whose microphone tracks are live
  openContexts,       \* call ids whose capture AudioContext is open
  frames,             \* capture loops with a pending analyzeAudio frame
  \* ---- history of the recorder (read by properties only)
  delivered,          \* call id -> bytes its dataavailable events delivered
  nChunks,            \* dataavailable events that brought a non-empty chunk
  resolved,           \* the last fulfilment of a stopRecording promise
  lastStop,           \* the promise the latest stopRecording call returned
  promises,           \* of: call id -> the promise its recorder's onstop resolves,
                      \*     "none" | "pending" | "fulfilled" | "rejected";
                      \* dropped: a pending promise lost its onstop handler
  \* ---- VoiceInterface (src/unnamed/part_001)
  isProcessing,       \* useState(false)
  isPlaying,          \* useState(false)
  playbackLevel,      \* useState(0)
  audioRef,           \* TRUE once new Audio() was stored
  created,            \* objects of the playback graph constructed so far, by kind
  playbackContextRef, \* "none" | "open" | "closed"
  playbackAnalyserRef,\* TRUE once created
  sourceRef,          \* TRUE once created
  playbackFrameRef,   \* Null or the playback loop whose frame was requested last
  playbackFrames,     \* playback loops with a pending analyzePlayback frame
  audio,              \* the element: "idle" | "loading" | "started" | "playing" |
                      \*              "ended" | "failed" | "error"
  playCount,          \* playAudioResponse calls that reached audio.play()
  urls,               \* object URLs created and not revoked
  turn,               \* handleToggleRecording's stop branch: "idle" | "stopping" |
                      \*              "sending" | "starting"
  turnSession,        \* the sessionId that invocation closed over
  request,            \* the request in flight: <<session, blob>>, or <<>>
  toast,              \* title of the last toast
  mounted,            \* FALSE after the component unmounted
  \* ---- useSession (src/src/hooks/useSession.ts)
  sessionId,          \* useState('')
  storage,            \* localStorage[SESSION_KEY]
  sessionInit,        \* TRUE once the mount effect has run
  resetIds            \* the ids the last two resetSession calls generated, oldest first

recorderVars == <<isRecording, audioLevel, mediaRecorderRef, audioChunksRef,
                  audioContextRef, analyserRef, animationFrameRef>>
browserVars == <<capture, onstop, startAwaited, streamLive, openContexts, frames>>
historyVars == <<delivered, nChunks, resolved, lastStop, promises>>
playbackVars == <<isPlaying, playbackLevel, audioRef, created, playbackContextRef,
                  playbackAnalyserRef, sourceRef, playbackFrameRef,
                  playbackFrames, audio, playCount, urls>>
turnVars == <<isProcessing, turn, turnSession, request, toast>>
sessionVars == <<sessionId, storage, sessionInit, resetIds>>
vars == <<recorderVars, browserVars, historyVars, playbackVars, turnVars,
          sessionVars, mounted>>

\* ---------------------------------------------------------------- helpers
\* new Blob(chunks): the concatenation of the chunks, in order
RECURSIVE Blob(_)
Blob(chunks) ==
  IF chunks = <<>> THEN <<>> ELSE Head(chunks) \o Blob(Tail(chunks))

\* event.data of the n-th dataavailable event: an opaque fragment, empty
\* (size 0) or not
Chunk(n, empty) == IF empty THEN <<>> ELSE <<n>>

\* the next unused call id, or Null when the bound is reached
NextCall ==
  IF \E k \in CallIds : capture[k] = "unused"
  THEN CHOOSE k \in CallIds : capture[k] = "unused" /\ \A j \in CallIds : j < k => capture[j] # "unused"
  ELSE Null

RECURSIVE Sum(_)
\* dataArray.reduce((a, b) => a + b)
Sum(dataArray) ==
  IF dataArray = <<>> THEN 0 ELSE Head(dataArray) + Sum(Tail(dataArray))

\* Level without the division by 255: the mean of the bins
Level_NoNormalise(dataArray) == (Sum(dataArray) * One) \div Len(dataArray)

\* the level analyzeAudio and analyzePlayback publish for a sample:
\* average = sum / length, level = average / 255
Level(dataArray) == (Sum(dataArray) * One) \div (Len(dataArray) * ByteMax)

\* the levels a sample can yield
Levels == {Level(dataArray) : dataArray \in BinArrays}

NoResolution == [rec |-> Null, blob |-> <<>>, idle |-> FALSE]

NoStop == [rec |-> Null, state |-> "none"]

Init ==
  /\ isRecording = FALSE
  /\ audioLevel = 0
  /\ mediaRecorderRef = Null
  /\ audioChunksRef = <<>>
  /\ audioContextRef = Null
  /\ analyserRef = Null
  /\ animationFrameRef = Null
  /\ capture = [k \in CallIds |-> "unused"]
  /\ onstop = [k \in CallIds |-> "none"]
  /\ startAwaited = {}
  /\ streamLive = {}
  /\ openContexts = {}
  /\ frames = {}
  /\ delivered = [k \in CallIds |-> <<>>]
  /\ nChunks = 0
  /\ resolved = NoResolution
  /\ lastStop = NoStop
  /\ promises = [of |-> [k \in CallIds |-> "none"], dropped |-> FALSE]
  /\ isProcessing = FALSE
  /\ isPlaying = FALSE
  /\ playbackLevel = 0
  /\ audioRef = FALSE
  /\ created = [element |-> 0, context |-> 0, analyser |-> 0, source |-> 0]
  /\ playbackContextRef = "none"
  /\ playbackAnalyserRef = FALSE
  /\ sourceRef = FALSE
  /\ playbackFrameRef = Null
  /\ playbackFrames = {}
  /\ audio = "idle"
  /\ playCount = 0
  /\ urls = {}
  /\ turn = "idle"
  /\ turnSession = NoSession
  /\ request = <<>>
  /\ toast = "none"
  /\ mounted = TRUE
  /\ sessionId = NoSession
  \* a reload finds the id an earlier page load stored, a first load finds none
  /\ storage \in {NoSession} \cup SessionIds
  /\ sessionInit = FALSE
  /\ resetIds = <<>>

\* ------------------------------------------------ useAudioRecorder
\* MediaRecorder.state !== 'inactive'
RecorderActive(k) == capture[k] = "recording"

\* analyzeAudio, lines 12-22, once analyserRef is set: publish the sampled level
\* and request the next frame of loop k
AnalyzeAudio(k, lvl) ==
  /\ audioLevel' = lvl
  /\ frames' = frames \cup {k}
  /\ animationFrameRef' = k

\* the guard of startRecording, lines 27-30
StartReturnsEarly == mediaRecorderRef # Null /\ RecorderActive(mediaRecorderRef)

\* startRecording up to its await of getUserMedia, lines 24-38
StartRecording(byTurn) ==
  IF StartReturnsEarly
  THEN UNCHANGED <<capture, startAwaited>>
  ELSE /\ NextCall # Null
       /\ capture' = [capture EXCEPT ![NextCall] = "acquiring"]
       /\ startAwaited' = IF byTurn THEN startAwaited \cup {NextCall} ELSE startAwaited

\* the toast handleToggleRecording shows when the startRecording call it awaits
\* settles, lines 136-149
StartToast(k, title) ==
  /\ toast' = IF k \in startAwaited THEN title ELSE toast
  /\ startAwaited' = startAwaited \ {k}

\* getUserMedia rejects (permission denied, no device): lines 67-70
GetUserMediaReject(k) ==
  /\ capture[k] = "acquiring"
  /\ capture' = [capture EXCEPT ![k] = "failed"]
  /\ StartToast(k, "Recording Error")
  /\ UNCHANGED <<recorderVars, onstop, streamLive, openContexts, frames,
                 historyVars, playbackVars, isProcessing, turn, turnSession,
                 request, sessionVars, mounted>>

\* getUserMedia resolves and startRecording runs to its end, lines 40-66;
\* `throws`: new MediaRecorder(stream, {mimeType}) throws (line 51)
GetUserMediaResolve(k, lvl, throws) ==
  /\ capture[k] = "acquiring"
  /\ streamLive' = streamLive \cup {k}
  /\ audioContextRef' = k
  /\ openContexts' = openContexts \cup {k}
  /\ analyserRef' = k
  /\ AnalyzeAudio(k, lvl)
  /\ IF throws
     THEN /\ capture' = [capture EXCEPT ![k] = "failed"]
          /\ StartToast(k, "Recording Error")
          /\ UNCHANGED <<audioChunksRef, mediaRecorderRef, isRecording>>
     ELSE /\ audioChunksRef' = <<>>
          /\ capture' = [capture EXCEPT ![k] = "recording"]
          /\ mediaRecorderRef' = k
          /\ isRecording' = TRUE
          /\ StartToast(k, "Recording Started")
  /\ UNCHANGED <<onstop, historyVars, playbackVars, isProcessing, turn,
                 turnSession, request, sessionVars, mounted>>

\* mediaRecorder.ondataavailable, lines 58-62
OnDataAvailable(chunks, data) == IF Len(data) > 0 THEN Append(chunks, data) ELSE chunks

\* a dataavailable event of recorder k while it records
DataAvailable(k, empty) ==
  /\ capture[k] = "recording"
  /\ empty \/ nChunks < MaxChunks
  /\ nChunks' = IF empty THEN nChunks ELSE nChunks + 1
  /\ audioChunksRef' = OnDataAvailable(audioChunksRef, Chunk(nChunks + 1, empty))
  /\ delivered' = [delivered EXCEPT ![k] = @ \o Chunk(nChunks + 1, empty)]
  /\ UNCHANGED <<isRecording, audioLevel, mediaRecorderRef, audioContextRef,
                 analyserRef, animationFrameRef, browserVars, resolved,
                 lastStop, promises, playbackVars, turnVars, sessionVars,
                 mounted>>

\* cancelAnimationFrame(animationFrameRef.current), lines 95-97
CancelFrame(pending, ref) == IF ref # Null THEN pending \ {ref} ELSE pending

\* audioContextRef.current.close(), lines 98-100
CloseContext(open, ref) == IF ref # Null THEN open \ {ref} ELSE open

\* recorder.onstop as stopRecording sets it, lines 82-109, for recorder k and
\* the chunk buffer `chunks` the handler finds
OnStop(k, chunks) ==
  /\ audioChunksRef' = <<>>
  /\ streamLive' = streamLive \ {k}
  /\ frames' = CancelFrame(frames, animationFrameRef)
  /\ openContexts' = CloseContext(openContexts, audioContextRef)
  /\ isRecording' = FALSE
  /\ audioLevel' = 0
  /\ mediaRecorderRef' = Null
  /\ resolved' = [rec |-> k, blob |-> Blob(chunks), idle |-> FALSE]
  /\ lastStop' = IF lastStop.rec = k /\ lastStop.state = "pending"
                 THEN [lastStop EXCEPT !.state = "fulfilled"]
                 ELSE lastStop
  /\ promises' = [promises EXCEPT !.of[k] = IF @ = "pending" THEN "fulfilled" ELSE @]
  /\ UNCHANGED <<audioContextRef, analyserRef, animationFrameRef>>

\* lines 125-134: the catch and finally of the stop branch
TurnFailed ==
  /\ toast' = "Error"
  /\ isProcessing' = FALSE
  /\ turn' = "idle"
  /\ turnSession' = NoSession
  /\ request' = <<>>

\* TurnAfterStop without the check of lines 109-117
TurnAfterStop_NoSessionCheck(blob, session) ==
  /\ request' = <<session, blob>>
  /\ turn' = "sending"
  /\ turnSession' = session
  /\ isProcessing' = TRUE
  /\ UNCHANGED toast

\* lines 109-120: what follows `await stopRecording()` once it is fulfilled
TurnAfterStop(blob, session) ==
  IF session = NoSession
  THEN /\ toast' = "Session Error"
       /\ isProcessing' = FALSE
       /\ turn' = "idle"
       /\ turnSession' = NoSession
       /\ request' = <<>>
  ELSE /\ request' = <<session, blob>>
       /\ turn' = "sending"
       /\ turnSession' = session
       /\ isProcessing' = TRUE
       /\ UNCHANGED toast

\* the recorder stops: a last dataavailable, then the stop event, in one task
FireStop(k, empty) ==
  LET data == Chunk(nChunks + 1, empty)
      chunks == OnDataAvailable(audioChunksRef, data)
  IN /\ nChunks' = IF empty THEN nChunks ELSE nChunks + 1
     /\ delivered' = [delivered EXCEPT ![k] = @ \o data]
     /\ capture' = [capture EXCEPT ![k] = "inactive"]
     /\ IF onstop[k] = "none"
        THEN /\ audioChunksRef' = chunks
             /\ UNCHANGED <<isRecording, audioLevel, mediaRecorderRef,
                            audioContextRef, analyserRef, animationFrameRef,
                            streamLive, openContexts, frames, resolved,
                            lastStop, promises>>
        ELSE OnStop(k, chunks)
     /\ IF onstop[k] = "turn" /\ turn = "stopping"
        THEN TurnAfterStop(Blob(chunks), turnSession)
        ELSE UNCHANGED <<isProcessing, turn, turnSession, request, toast>>
     /\ UNCHANGED <<onstop, startAwaited,
                    playbackVars, sessionVars, mounted>>

\* the last chunk is empty once the bound on non-empty chunks is reached
LastEmpty == IF nChunks < MaxChunks THEN BOOLEAN ELSE {TRUE}

\* the stop notification that recorder.stop() (line 111) asked for
RecorderStopTask(k, empty) ==
  /\ capture[k] = "stopping"
  /\ empty \in LastEmpty
  /\ FireStop(k, empty)

\* the recorder becomes inactive without stop() (its input ended, or it failed)
RecorderStopsOnItsOwn(k, empty) ==
  /\ capture[k] = "recording"
  /\ empty \in LastEmpty
  /\ FireStop(k, empty)

\* an animation frame of capture loop k fires: analyzeAudio, lines 12-22
AnalyzeAudioFrame(k, lvl) ==
  /\ k \in frames
  /\ analyserRef # Null
  /\ AnalyzeAudio(k, lvl)
  /\ UNCHANGED <<isRecording, mediaRecorderRef, audioChunksRef, audioContextRef,
                 analyserRef, capture, onstop, startAwaited, streamLive,
                 openContexts, historyVars, playbackVars, turnVars, sessionVars,
                 mounted>>

\* how the promise stopRecording returns stands when the call returns:
\* "fulfilled" | "rejected" | "pending"; `throws`: recorder.stop() (line 111)
\* on a recorder that is already inactive throws InvalidStateError instead of
\* returning, and the promise executor turns that into a rejection
StopSettles(throws) ==
  IF mediaRecorderRef = Null THEN "fulfilled"
  ELSE IF RecorderActive(mediaRecorderRef) THEN "pending"
  ELSE IF throws THEN "rejected" ELSE "pending"

\* `recorder.onstop = ...`, line 82: the handler that resolves the new promise
\* replaces the one installed before it, whose promise, if still pending, can
\* no longer be settled; `state` is how the new promise stands after line 111
InstallOnStop(k, state) ==
  [of |-> [promises.of EXCEPT ![k] = state],
   dropped |-> promises.dropped \/ promises.of[k] = "pending"]

\* StopRecording that returns at line 77 without resolving
StopRecording_NoIdleResolve(who, throws) ==
  /\ lastStop' = [rec |-> mediaRecorderRef,
                  state |-> IF mediaRecorderRef = Null THEN "pending"
                            ELSE StopSettles(throws)]
  /\ IF mediaRecorderRef = Null
     THEN /\ promises' = [promises EXCEPT !.dropped = TRUE]
          /\ UNCHANGED <<capture, onstop, resolved>>
     ELSE /\ onstop' = [onstop EXCEPT ![mediaRecorderRef] = who]
          /\ capture' = [capture EXCEPT ![mediaRecorderRef] =
                           IF @ = "recording" THEN "stopping" ELSE @]
          /\ promises' = InstallOnStop(mediaRecorderRef, StopSettles(throws))
          /\ UNCHANGED resolved

\* stopRecording, lines 73-113, called by `who`
StopRecording(who, throws) ==
  /\ lastStop' = [rec |-> mediaRecorderRef, state |-> StopSettles(throws)]
  /\ IF mediaRecorderRef = Null
     THEN /\ resolved' = [rec |-> Null, blob |-> <<>>, idle |-> TRUE]
          /\ UNCHANGED <<capture, onstop, promises>>
     ELSE /\ onstop' = [onstop EXCEPT ![mediaRecorderRef] = who]
          /\ capture' = [capture EXCEPT ![mediaRecorderRef] =
                           IF @ = "recording" THEN "stopping" ELSE @]
          /\ promises' = InstallOnStop(mediaRecorderRef, StopSettles(throws))
          /\ UNCHANGED resolved


\* the hook's startRecording and stopRecording called by any other client
StartRecordingCall ==
  /\ StartRecording(FALSE)
  /\ UNCHANGED <<recorderVars, onstop, streamLive, openContexts, frames,
                 historyVars, playbackVars, turnVars, sessionVars, mounted>>

StopRecordingCall(throws) ==
  /\ StopRecording("api", throws)
  /\ UNCHANGED <<recorderVars, startAwaited, streamLive, openContexts, frames,
                 delivered, nChunks, playbackVars, turnVars,
                 sessionVars, mounted>>

\* ------------------------------------------------ useSession
\* generateSessionId, lines 5-7: some non-empty id
GenerateSessionId == SessionIds

\* ExistingSession that ignores what localStorage holds
ExistingSession_AlwaysNew(stored, new) == new

\* lines 14-20: the stored id when there is one, else the generated one
ExistingSession(stored, new) == IF stored # NoSession THEN stored ELSE new

\* the mount effect, lines 12-23
SessionMountEffect ==
  /\ mounted
  /\ ~sessionInit
  /\ \E new \in GenerateSessionId :
       LET existingSession == ExistingSession(storage, new)
       IN /\ storage' = existingSession
          /\ sessionId' = existingSession
  /\ sessionInit' = TRUE
  /\ UNCHANGED resetIds
  /\ UNCHANGED <<recorderVars, browserVars, historyVars, playbackVars, turnVars,
                 mounted>>

\* resetSession, lines 25-29
ResetSession(new) ==
  /\ storage' = new
  /\ sessionId' = new
  /\ resetIds' = IF resetIds = <<>> THEN <<new>> ELSE <<resetIds[Len(resetIds)], new>>

\* ------------------------------------------------ VoiceInterface
\* the toggle Button's disabled attribute, line 190
ToggleDisabled == isProcessing \/ isPlaying

\* the reset Button's disabled attribute, line 215
ResetDisabled == isRecording \/ isProcessing \/ isPlaying

\* handleResetSession, lines 153-159
HandleResetSession(new) ==
  /\ mounted
  /\ ~ResetDisabled
  /\ ResetSession(new)
  /\ toast' = "Session Reset"
  /\ UNCHANGED <<recorderVars, browserVars, historyVars, playbackVars,
                 isProcessing, turn, turnSession, request, sessionInit, mounted>>

\* handleToggleRecording up to its first await, lines 103-107 and 135-137
HandleToggleRecording(throws) ==
  /\ mounted
  /\ ~ToggleDisabled
  /\ IF isRecording
     THEN /\ StopRecording("turn", throws)
          /\ CASE StopSettles(throws) = "fulfilled" -> TurnAfterStop(<<>>, sessionId)
               [] StopSettles(throws) = "rejected" -> TurnFailed
               [] OTHER -> /\ isProcessing' = TRUE
                           /\ turn' = "stopping"
                           /\ turnSession' = sessionId
                           /\ UNCHANGED <<request, toast>>
          /\ UNCHANGED startAwaited
     ELSE /\ StartRecording(TRUE)
          /\ toast' = IF StartReturnsEarly THEN "Recording Started" ELSE toast
          /\ UNCHANGED <<onstop, resolved, lastStop, promises, isProcessing, turn,
                         turnSession, request>>
  /\ UNCHANGED <<recorderVars, streamLive, openContexts, frames, delivered,
                 nChunks, playbackVars, sessionVars, mounted>>

\* lines 91-99: the catch of playAudioResponse
PlaybackFailed ==
  /\ isPlaying' = FALSE
  /\ playbackLevel' = 0
  /\ toast' = "Playback Error"

\* lines 132-134 after playAudioResponse returned
TurnDone ==
  /\ isProcessing' = FALSE
  /\ turn' = "idle"
  /\ turnSession' = NoSession
  /\ request' = <<>>

\* Construct without the `if (!ref.current)` test: a new object on every call
Construct_EveryCall(isSet, n) == n + 1

\* `if (!ref.current) ref.current = new ...`, lines 51-72: how many objects of
\* a kind exist after the statement, n having been constructed before it
Construct(isSet, n) == IF isSet THEN n ELSE n + 1

\* playAudioResponse up to `await audio.play()`, lines 47-90; `allowed`: FALSE
\* when play() rejects at once (NotAllowedError), before any event
PlayAudioResponse(allowed) ==
  /\ playCount' = playCount + 1
  /\ urls' = urls \cup {playCount + 1}
  /\ created' = [element |-> Construct(audioRef, created.element),
                 context |-> Construct(playbackContextRef # "none", created.context),
                 analyser |-> Construct(playbackAnalyserRef, created.analyser),
                 source |-> Construct(sourceRef, created.source)]
  /\ audioRef' = TRUE
  /\ playbackContextRef' = IF playbackContextRef = "none" THEN "open" ELSE playbackContextRef
  /\ playbackAnalyserRef' = TRUE
  /\ sourceRef' = TRUE
  /\ IF allowed
     THEN /\ audio' = "loading"
          /\ turn' = "starting"
          /\ UNCHANGED <<isPlaying, playbackLevel, isProcessing, turnSession,
                         request, toast>>
     ELSE /\ audio' = "failed"
          /\ PlaybackFailed
          /\ TurnDone
  /\ UNCHANGED <<playbackFrameRef, playbackFrames>>

\* sendAudioToAPI settles, audioApi.ts lines 8-19, and handleToggleRecording
\* goes on, lines 120-134; `ok`: response.ok
FetchSettles(ok, allowed) ==
  /\ turn = "sending"
  /\ IF ok
     THEN PlayAudioResponse(allowed)
     ELSE /\ TurnFailed
          /\ UNCHANGED playbackVars
  /\ UNCHANGED <<recorderVars, browserVars, historyVars, sessionVars, mounted>>

\* analyzePlayback, lines 35-45, for playback loop p
AnalyzePlayback(p, lvl) ==
  /\ playbackLevel' = lvl
  /\ playbackFrames' = playbackFrames \cup {p}
  /\ playbackFrameRef' = p

\* audio.onplay, lines 76-79
AudioPlayEvent(lvl) ==
  /\ audio = "loading"
  /\ audio' = "started"
  /\ isPlaying' = TRUE
  /\ AnalyzePlayback(playCount, lvl)
  /\ UNCHANGED <<recorderVars, browserVars, historyVars, audioRef, created,
                 playbackContextRef, playbackAnalyserRef, sourceRef, playCount,
                 urls, turnVars, sessionVars, mounted>>

\* audio.play() is fulfilled: playback has begun; lines 90 and 132-134
PlayFulfilled ==
  /\ audio = "started"
  /\ audio' = "playing"
  /\ TurnDone
  /\ UNCHANGED <<recorderVars, browserVars, historyVars, isPlaying,
                 playbackLevel, audioRef, created, playbackContextRef,
                 playbackAnalyserRef, sourceRef, playbackFrameRef,
                 playbackFrames, playCount, urls, toast, sessionVars,
                 mounted>>

\* audio.play() is rejected after the play event (the source cannot be loaded)
PlayRejected ==
  /\ audio = "started"
  /\ audio' = "failed"
  /\ PlaybackFailed
  /\ TurnDone
  /\ UNCHANGED <<recorderVars, browserVars, historyVars, audioRef, created,
                 playbackContextRef, playbackAnalyserRef, sourceRef,
                 playbackFrameRef, playbackFrames, playCount, urls,
                 sessionVars, mounted>>

\* audio.onended, lines 81-88
AudioEnded ==
  /\ audio = "playing"
  /\ audio' = "ended"
  /\ isPlaying' = FALSE
  /\ playbackLevel' = 0
  /\ playbackFrames' = CancelFrame(playbackFrames, playbackFrameRef)
  /\ urls' = urls \ {playCount}
  /\ UNCHANGED <<recorderVars, browserVars, historyVars, audioRef, created,
                 playbackContextRef, playbackAnalyserRef, sourceRef,
                 playbackFrameRef, playCount, turnVars, sessionVars, mounted>>

\* the element fires `error` while playing (decoding fails): no handler is set
AudioError ==
  /\ audio = "playing"
  /\ audio' = "error"
  /\ UNCHANGED <<recorderVars, browserVars, historyVars, isPlaying,
                 playbackLevel, audioRef, created, playbackContextRef,
                 playbackAnalyserRef, sourceRef, playbackFrameRef,
                 playbackFrames, playCount, urls, turnVars, sessionVars, mounted>>

\* an animation frame of playback loop p fires
AnalyzePlaybackFrame(p, lvl) ==
  /\ p \in playbackFrames
  /\ playbackAnalyserRef
  /\ AnalyzePlayback(p, lvl)
  /\ UNCHANGED <<recorderVars, browserVars, historyVars, isPlaying, audioRef, created,
                 playbackContextRef, playbackAnalyserRef, sourceRef, audio,
                 playCount, urls, turnVars, sessionVars, mounted>>

\* the unmount cleanup, lines 23-33
Unmount ==
  /\ mounted
  /\ mounted' = FALSE
  /\ playbackFrames' = CancelFrame(playbackFrames, playbackFrameRef)
  /\ playbackContextRef' = IF playbackContextRef = "open" THEN "closed" ELSE playbackContextRef
  /\ UNCHANGED <<recorderVars, browserVars, historyVars, isPlaying,
                 playbackLevel, audioRef, created, playbackAnalyserRef, sourceRef,
                 playbackFrameRef, audio, playCount, urls, turnVars, sessionVars>>

\* ------------------------------------------------ specifications
\* the component in the browser
Next ==
  \/ SessionMountEffect
  \/ \E new \in GenerateSessionId : HandleResetSession(new)
  \/ \E throws \in BOOLEAN : HandleToggleRecording(throws)
  \/ \E k \in CallIds : GetUserMediaReject(k)
  \/ \E k \in CallIds, lvl \in Levels, throws \in BOOLEAN : GetUserMediaResolve(k, lvl, throws)
  \/ \E k \in CallIds, empty \in BOOLEAN : DataAvailable(k, empty)
  \/ \E k \in CallIds, empty \in BOOLEAN : RecorderStopTask(k, empty)
  \/ \E k \in CallIds, empty \in BOOLEAN : RecorderStopsOnItsOwn(k, empty)
  \/ \E k \in CallIds, lvl \in Levels : AnalyzeAudioFrame(k, lvl)
  \/ \E ok \in BOOLEAN, allowed \in BOOLEAN : FetchSettles(ok, allowed)
  \/ \E lvl \in Levels : AudioPlayEvent(lvl)
  \/ PlayFulfilled
  \/ PlayRejected
  \/ AudioEnded
  \/ AudioError
  \/ \E p \in CallIds, lvl \in Levels : AnalyzePlaybackFrame(p, lvl)
  \/ Unmount

Spec == Init /\ [][Next]_vars

\* the hook alone, driven by any client
RecorderNext ==
  \/ StartRecordingCall
  \/ \E throws \in BOOLEAN : StopRecordingCall(throws)
  \/ \E k \in CallIds : GetUserMediaReject(k)
  \/ \E k \in CallIds, lvl \in Levels, throws \in BOOLEAN : GetUserMediaResolve(k, lvl, throws)
  \/ \E k \in CallIds, empty \in BOOLEAN : DataAvailable(k, empty)
  \/ \E k \in CallIds, empty \in BOOLEAN : RecorderStopTask(k, empty)
  \/ \E k \in CallIds, empty \in BOOLEAN : RecorderStopsOnItsOwn(k, empty)
  \/ \E k \in CallIds, lvl \in Levels : AnalyzeAudioFrame(k, lvl)

\* the hook is mounted in a page that stored no session
RecorderInit == Init /\ storage = NoSession

RecorderSpec == RecorderInit /\ [][RecorderNext]_vars

\* the hook, with every callback the browser owes eventually delivered: a
\* pending getUserMedia settles and a requested stop is notified; the client
\* is not obliged to call
FairRecorderSpec ==
  /\ RecorderSpec
  /\ WF_vars(\E k \in CallIds : GetUserMediaReject(k)
               \/ \E lvl \in Levels, throws \in BOOLEAN : GetUserMediaResolve(k, lvl, throws))
  /\ WF_vars(\E k \in CallIds, empty \in BOOLEAN : RecorderStopTask(k, empty))


\* the component, with every callback the browser owes eventually delivered:
\* a pending getUserMedia settles, a requested stop is notified, the request
\* is answered, the element reports play, then the outcome of play(), then the
\* end of the playback or its failure; the user is not obliged to act
FairSpec ==
  /\ Spec
  /\ WF_vars(\E k \in CallIds : GetUserMediaReject(k)
               \/ \E lvl \in Levels, throws \in BOOLEAN : GetUserMediaResolve(k, lvl, throws))
  /\ WF_vars(\E k \in CallIds, empty \in BOOLEAN : RecorderStopTask(k, empty))
  /\ WF_vars(\E ok \in BOOLEAN, allowed \in BOOLEAN : FetchSettles(ok, allowed))
  /\ WF_vars(\E lvl \in Levels : AudioPlayEvent(lvl))
  /\ WF_vars(PlayFulfilled \/ PlayRejected)
  /\ WF_vars(AudioEnded \/ AudioError)

\* ------------------------------------------------ properties
Recording == {k \in CallIds : capture[k] = "recording"}

\* the Recorder is Idle: no recorder is referenced
RecorderIdle == mediaRecorderRef = Null

\* the conversation is Idle
ConversationIdle == ~isRecording /\ ~isProcessing /\ ~isPlaying

\* C1: the blob a stopRecording promise is fulfilled with is the concatenation,
\* in arrival order, of exactly the chunks the stopped recorder delivered in
\* its session.
C1_BlobIsSessionChunks ==
  resolved.rec # Null => resolved.blob = delivered[resolved.rec]

\* C2: at most one MediaRecorder feeds the chunk buffer and at most one capture
\* sampling loop is scheduled, in every reachable state.
C2_OneCapture ==
  /\ Cardinality(Recording) <= 1
  /\ Cardinality(frames) <= 1

\* C3: stopRecording called while the Recorder is Idle is fulfilled at once
\* with a zero-length blob, cannot reject, and changes no state of the recorder.
C3_StopWhileIdle ==
  [][(RecorderIdle /\ \E throws \in BOOLEAN : StopRecordingCall(throws)) =>
       /\ lastStop' = [rec |-> Null, state |-> "fulfilled"]
       /\ resolved'.idle /\ resolved'.blob = <<>>
       /\ UNCHANGED <<recorderVars, browserVars>>]_vars

\* a stop made while Idle, after a start/stop cycle was completed
C3_Witness ==
  /\ resolved.idle
  /\ lastStop = [rec |-> Null, state |-> "fulfilled"]
  /\ RecorderIdle
  /\ \E k \in CallIds : capture[k] = "inactive" /\ onstop[k] = "api" /\ k \notin streamLive

\* C4: the phases of a Turn are sequential and Turns do not overlap: the
\* request is sent only after stopRecording was fulfilled, with its blob;
\* playback is started only after the response arrived; and no recording runs
\* while a Turn is in its Sending or Playing phase.
C4_TurnsSequential ==
  /\ turn = "sending" => (resolved.rec # Null /\ request[2] = resolved.blob)
  /\ audio \in {"loading", "started"} => turn = "starting"
  /\ isRecording => (turn \notin {"sending", "starting"} /\ ~isPlaying)

\* C5: a request is sent only with a non-empty session id; a stop made with an
\* empty session id ends in a Session Error, without a request, and with the
\* conversation Idle.
C5_SessionGuard ==
  /\ [](request # <<>> => request[1] # NoSession)
  /\ [][(turn = "stopping" /\ turnSession = NoSession /\ turn' # "stopping") =>
          /\ toast' = "Session Error"
          /\ request' = <<>>
          /\ turn' = "idle"
          /\ ~isProcessing' /\ ~isRecording' /\ ~isPlaying']_vars

\* a recording stopped before the session id was set
C5_Witness ==
  /\ toast = "Session Error"
  /\ turn = "idle"
  /\ resolved.rec # Null
  /\ sessionId = NoSession

\* C6: when the exchange fails, the error is surfaced, no playback starts, the
\* conversation is Idle, the chunk buffer is empty and the session id is
\* unchanged in memory and in storage.
C6_TransportError ==
  [][(turn = "sending" /\ turn' = "idle" /\ playCount' = playCount) =>
       /\ toast' = "Error"
       /\ UNCHANGED <<audio, isPlaying, sessionId, storage>>
       /\ ~isProcessing' /\ ~isRecording' /\ ~isPlaying'
       /\ audioChunksRef' = <<>>]_vars

\* C7: once every pending callback has fired, a conversation that is Sending
\* or Playing is Idle again.
C7_BackToIdle == (isProcessing \/ isPlaying) ~> ConversationIdle

\* C8: whenever playback fails, before or after it began, isPlaying is false,
\* the playback level is 0 and a Playback Error is shown.
C8_PlaybackError ==
  [][(audio' \in {"failed", "error"} /\ audio' # audio) =>
       /\ ~isPlaying'
       /\ playbackLevel' = 0
       /\ toast' = "Playback Error"]_vars

\* C9: a startRecording call that fails reports the failure to its caller and
\* leaves nothing attached: no live track, no open capture AudioContext, no
\* scheduled sampling loop, isRecording as it was.
C9_FailedStartIsClean ==
  [][\A k \in CallIds :
       (capture[k] = "acquiring" /\ capture'[k] = "failed") =>
         /\ k \notin streamLive' /\ k \notin openContexts' /\ k \notin frames'
         /\ isRecording' = isRecording
         /\ (k \in startAwaited => toast' = "Recording Error")]_vars

\* C10: after the component unmounted, no sampling loop is scheduled, no
\* AudioContext is open and no microphone track is live.
C10_UnmountReleases ==
  [][Unmount =>
       /\ frames' = {} /\ playbackFrames' = {}
       /\ openContexts' = {} /\ playbackContextRef' # "open"
       /\ streamLive' = {}]_vars

\* C11: over any number of playAudioResponse calls the playback graph is
\* constructed at most once: one Audio element, one playback AudioContext, one
\* analyser and one MediaElementAudioSourceNode, all of them present from the
\* first call on and reused by every later call.
C11_GraphBuiltOnce ==
  /\ created.element <= 1 /\ created.context <= 1
  /\ created.analyser <= 1 /\ created.source <= 1
  /\ playCount >= 1 =>
       /\ created = [element |-> 1, context |-> 1, analyser |-> 1, source |-> 1]
       /\ audioRef /\ playbackAnalyserRef /\ sourceRef
       /\ playbackContextRef # "none"

\* a second response is being played through the graph the first one built
C11_Witness ==
  /\ playCount = 2
  /\ audio = "playing"
  /\ created = [element |-> 1, context |-> 1, analyser |-> 1, source |-> 1]

\* C13: every level the meters produce lies in [0,1], and the exposed level of
\* a meter is exactly 0 as long as no analyser is attached to it.
C13_LevelInUnitInterval ==
  /\ \A dataArray \in BinArrays : Level(dataArray) \in 0..One
  /\ audioLevel \in 0..One
  /\ playbackLevel \in 0..One
  /\ analyserRef = Null => audioLevel = 0
  /\ ~playbackAnalyserRef => playbackLevel = 0

\* the capture meter read while a full-scale playback sample is on display
C13_Witness ==
  /\ isPlaying /\ playbackLevel = One
  /\ analyserRef # Null
  /\ \E k \in CallIds : capture[k] = "inactive" /\ audioLevel = 0

\* the values handed to the activity indicator, lines 161-162
IsActive == isRecording \/ isPlaying
CurrentLevel == IF isRecording THEN audioLevel ELSE playbackLevel

\* C12: the indicator is active iff the conversation is Recording or Playing;
\* its level is the Recorder's level while Recording, the Playback level while
\* Playing, and 0 in every other state.
C12_IndicatorValues ==
  /\ IsActive <=> (isRecording \/ isPlaying)
  /\ isRecording => CurrentLevel = audioLevel
  /\ (isPlaying /\ ~isRecording) => CurrentLevel = playbackLevel
  /\ (~isRecording /\ ~isPlaying) => CurrentLevel = 0

\* C19: at most one analyzePlayback frame callback is pending at any time, and
\* none is pending while Playback is Idle.
C19_OnePlaybackLoop ==
  /\ Cardinality(playbackFrames) <= 1
  /\ ~isPlaying => playbackFrames = {}

\* C17: from the natural end of a playback until the next playback starts,
\* isPlaying is false, the playback level is 0, no analyzePlayback frame is
\* pending and the object URL of that response is revoked.
C17_EndedIsQuiet ==
  audio = "ended" =>
    /\ ~isPlaying
    /\ playbackLevel = 0
    /\ playbackFrames = {}
    /\ playCount \notin urls

\* C14: two resets in a row yield two distinct, non-empty session ids, each
\* replacing the previous one in memory and in storage, and a reset leaves the
\* conversation state (isRecording, isProcessing, isPlaying, the levels, the
\* chunk buffer) unchanged.
C14_ResetTwiceDistinct ==
  /\ [](Len(resetIds) = 2 =>
          /\ resetIds[1] # resetIds[2]
          /\ resetIds[1] # NoSession /\ resetIds[2] # NoSession
          /\ sessionId = resetIds[2] /\ storage = resetIds[2])
  /\ [][(\E new \in GenerateSessionId : HandleResetSession(new)) =>
          UNCHANGED <<isRecording, isProcessing, isPlaying, audioLevel,
                      playbackLevel, audioChunksRef>>]_vars

\* C15: the mount effect adopts the stored session id unchanged when there is
\* one and otherwise generates and stores one; once initialised, and after
\* every reset, the id in memory is non-empty and equal to the stored one.
C15_SessionPersisted ==
  /\ [](sessionInit => (sessionId = storage /\ sessionId # NoSession))
  /\ [](resetIds # <<>> =>
          (sessionId = storage /\ sessionId = resetIds[Len(resetIds)]))
  /\ [][SessionMountEffect =>
          IF storage # NoSession
          THEN sessionId' = storage /\ storage' = storage
          ELSE sessionId' # NoSession /\ storage' = sessionId']_vars

\* an initialised session that a reset has replaced
C15_Witness ==
  /\ sessionInit
  /\ Len(resetIds) = 2 /\ resetIds[1] # resetIds[2]
  /\ sessionId = storage /\ storage = resetIds[2]

\* C16: when the stop notification of an active capture fulfils the promise of
\* stopRecording, the chunk buffer is empty, the tracks of its stream are
\* stopped, its sampling loop is cancelled, its AudioContext is closed, the
\* level is 0, isRecording is false and the recorder reference is cleared; the
\* call of stopRecording itself does none of this.
C16_ReleasedWhenFulfilled ==
  /\ [][\A k \in CallIds :
          (capture[k] \in {"recording", "stopping"} /\ capture'[k] = "inactive"
             /\ onstop[k] # "none") =>
            /\ resolved'.rec = k
            /\ audioChunksRef' = <<>>
            /\ k \notin streamLive'
            /\ k \notin frames'
            /\ k \notin openContexts'
            /\ audioLevel' = 0
            /\ ~isRecording'
            /\ mediaRecorderRef' = Null]_vars
  /\ [][(\E k \in CallIds : capture[k] = "recording" /\ capture'[k] = "stopping") =>
          UNCHANGED <<recorderVars, streamLive, openContexts, frames>>]_vars

\* C18: isRecording and isPlaying are never both true, and the capture loop
\* and the playback loop are never scheduled at the same time.
C18_RecordingXorPlaying ==
  /\ ~(isRecording /\ isPlaying)
  /\ ~(frames # {} /\ playbackFrames # {})

\* C20: at most one capture AudioContext is open at any time, and none is
\* open while the Recorder is Idle.
C20_OneCaptureContext ==
  /\ Cardinality(openContexts) <= 1
  /\ RecorderIdle => openContexts = {}

\* C21: every promise stopRecording returns is settled once the pending
\* recorder notifications have fired: no pending promise loses the handler
\* that resolves it, and a promise that waits for its recorder's stop
\* notification is eventually fulfilled or rejected.
C21_StopPromiseSettles ==
  /\ [](~promises.dropped)
  /\ \A k \in CallIds :
       (promises.of[k] = "pending") ~> (promises.of[k] # "pending")

====
